---- MODULE Spec2Model ----
(***************************************************************************)
(* A model of the Ansible modules pip and pipenv and of their shared       *)
(* helper library module_utils/pip.py.                                     *)
(*                                                                         *)
(* One run of a module is one process: it reads its arguments, changes     *)
(* the process umask and environment, runs subprocesses and ends in        *)
(* exit_json (a success exit), fail_json (a failure report) or an          *)
(* uncaught exception.  The results of the subprocesses and of the file    *)
(* system lookups are the environment's: any exit code and any of a few    *)
(* representative outputs.  A session is MaxRuns consecutive runs with     *)
(* the same arguments on the same host.                                    *)
(*                                                                         *)
(* A Python string is a sequence of tokens; the tokens that matter to the  *)
(* code (operators, ",", " ", "\n", "==") are tokens of their own.         *)
(***************************************************************************)
EXTENDS Integers, Sequences, FiniteSets, TLC

\* ------------------------------------------------------------- bounds

\* Consecutive runs of a module in one session.
MaxRuns == 2

\* The longest list of names given to _recover_package_name.
MaxNames == 2

\* The longest listing given to _is_present.
MaxLines == 2

\* ------------------------------------------------------------ strings

\* Python's None, for an optional string or list argument.
None == <<"None">>

\* Python's None, for an optional list of strings.
NoList == << None >>

\* bool(x) of an optional string.
Truthy(x) == x # None /\ x # <<>>

\* bool(x) of an optional list of strings.
TruthyList(x) == x # NoList /\ x # <<>>

RECURSIVE Join(_, _)
\* sep.join(parts)
Join(parts, sep) ==
    IF parts = <<>> THEN <<>>
    ELSE IF Len(parts) = 1 THEN parts[1]
    ELSE parts[1] \o sep \o Join(Tail(parts), sep)

RECURSIVE SplitFrom(_, _, _)
\* The parts of s after cur, the part being read: a new part starts at every
\* token sep.
SplitFrom(s, sep, cur) ==
    IF s = <<>> THEN <<cur>>
    ELSE IF Head(s) = sep THEN <<cur>> \o SplitFrom(Tail(s), sep, <<>>)
    ELSE SplitFrom(Tail(s), sep, Append(cur, Head(s)))

\* s.split(sep): every occurrence of sep ends a part; empty parts are kept.
Split(s, sep) == SplitFrom(s, sep, <<>>)

RECURSIVE LStrip(_)
\* s.lstrip()
LStrip(s) ==
    IF s # <<>> /\ Head(s) \in {" ", "\n"} THEN LStrip(Tail(s)) ELSE s

\* shlex.split(s) of a string without quotes or escapes: the words between
\* runs of whitespace.
ShlexSplit(s) == SelectSeq(Split(s, " "), LAMBDA w : w # <<>>)

\* x in s, for a token x.
Contains(s, x) == \E i \in 1..Len(s) : s[i] = x

RECURSIVE Flatten(_)
\* The concatenation of a sequence of strings.
Flatten(ss) == IF ss = <<>> THEN <<>> ELSE Head(ss) \o Flatten(Tail(ss))

\* ------------------------------------------------ module_utils/pip.py

\* The keys of op_dict.
OpTokens == {">=", "<=", ">", "<", "==", "!=", "~="}

\* The prefixes _VCS_RE matches.
VcsTokens == {"svn+", "git+", "hg+", "bzr+"}

\* _is_vcs_url(name)
IsVcsUrl(name) == name # <<>> /\ Head(name) \in VcsTokens

\* _is_package_name(name)
IsPackageName(name) == ~(LStrip(name) # <<>> /\ Head(LStrip(name)) \in OpTokens)

RECURSIVE Reconstruct(_, _)
\* The loop of _recover_package_name over the flat list, name_parts being the
\* parts collected for the package being read.
Reconstruct(names, name_parts) ==
    IF names = <<>> THEN << Join(name_parts, <<",">>) >>
    ELSE IF IsPackageName(Head(names))
         THEN (IF name_parts # <<>> THEN << Join(name_parts, <<",">>) >> ELSE <<>>)
              \o Reconstruct(Tail(names), << Head(names) >>)
         ELSE Reconstruct(Tail(names), Append(name_parts, Head(names)))

RECURSIVE FlatNames(_)
\* The first loop of _recover_package_name: every line split on ",".
FlatNames(names) ==
    IF names = <<>> THEN <<>>
    ELSE Split(Head(names), ",") \o FlatNames(Tail(names))

\* _recover_package_name(names)
RecoverPackageName(names) == Reconstruct(FlatNames(names), <<>>)

\* Whether the name Requirement is bound in module_utils/pip.py: the module
\* imports os, sys, operator, re, LooseVersion, to_native, is_executable and
\* PY3, and never Requirement, which Package.__init__ reads.
RequirementBound == FALSE

\* Project names, as written and lower-cased by str.lower().
NameTokens == {"a", "b", "A", "pip", "setuptools", "distribute", "pipenv"}

\* tok.lower()
LowerTok(tok) == IF tok = "A" THEN "a" ELSE tok

\* s.lower()
Lower(s) == [i \in 1..Len(s) |-> LowerTok(s[i])]

\* Version strings: final releases of one or two segments.
VersionTokens == {"1", "2", "3", "1.0", "1.1", "2.0"}

\* The release segments of a version token.
Release(tok) ==
    CASE tok = "1" -> <<1>> [] tok = "2" -> <<2>> [] tok = "3" -> <<3>>
      [] tok = "1.0" -> <<1, 0>> [] tok = "1.1" -> <<1, 1>> [] tok = "2.0" -> <<2, 0>>

\* The first release segment of a version token.
VersionNum(tok) == Release(tok)[1]

RECURSIVE ListLess(_, _)
\* a < b of two Python lists of numbers: the first difference decides, and a
\* list is greater than its proper prefixes.
ListLess(a, b) ==
    IF b = <<>> THEN FALSE
    ELSE IF a = <<>> THEN TRUE
    ELSE IF Head(a) # Head(b) THEN Head(a) < Head(b)
    ELSE ListLess(Tail(a), Tail(b))

\* A release with zeros added up to n segments, as the specifier compares it.
Padded(v, n) == [i \in 1..n |-> IF i <= Len(v) THEN v[i] ELSE 0]

\* The longer of two releases.
Longer(v, w) == IF Len(v) >= Len(w) THEN Len(v) ELSE Len(w)

\* The operators a specifier of one-segment versions may hold ("~=" needs
\* two segments).
SpecOps == OpTokens \ {"~="}

\* A requirement string without its blanks.
NoBlanks(s) == SelectSeq(s, LAMBDA tok : tok # " ")

\* The specs of a requirement string: the (op, version) pairs after the name.
SpecParts(s) == IF Len(NoBlanks(s)) <= 1 THEN <<>> ELSE Split(Tail(NoBlanks(s)), ",")

\* Whether pkg_resources' Requirement.parse accepts the string (it raises a
\* ValueError otherwise).
RequirementValid(s) ==
    /\ NoBlanks(s) # <<>>
    /\ Head(NoBlanks(s)) \in NameTokens
    /\ \A i \in 1..Len(SpecParts(s)) :
          /\ Len(SpecParts(s)[i]) = 2
          /\ SpecParts(s)[i][2] \in VersionTokens
          /\ IF SpecParts(s)[i][1] = "~="
             THEN Len(Release(SpecParts(s)[i][2])) >= 2
             ELSE SpecParts(s)[i][1] \in SpecOps

\* str.isdigit() of a token.
IsDigit(tok) == tok \in VersionTokens

\* The string Package.__init__ hands to Requirement.parse.
PackageParseString(name_string, version_string) ==
    IF Truthy(version_string)
    THEN name_string
         \o (IF IsDigit(Head(LStrip(version_string))) THEN <<"==">> ELSE <<" ">>)
         \o LStrip(version_string)
    ELSE name_string

\* The Package object lines 257 to 274 leave once Requirement.parse(s) has
\* run: project_name is the name as written, the specs are the (op, version)
\* pairs; a ValueError leaves the name as given and no requirement.
ParsedPackage(name_string, s) ==
    IF RequirementValid(s)
    THEN [exc |-> "none",
          package_name |-> IF Head(NoBlanks(s)) = "distribute"
                           THEN <<"setuptools">> ELSE <<Head(NoBlanks(s))>>,
          plain |-> TRUE,
          specs |-> SpecParts(s),
          requirement |-> NoBlanks(s)]
    ELSE [exc |-> "none", package_name |-> name_string, plain |-> FALSE,
          specs |-> <<>>, requirement |-> <<>>]

\* Package(name_string, version_string): the object's fields, or the
\* exception the constructor raises.
Package(name_string, version_string) ==
    LET s == PackageParseString(name_string, version_string) IN
    IF ~RequirementBound
    THEN [exc |-> "NameError", package_name |-> name_string, plain |-> FALSE,
          specs |-> <<>>, requirement |-> <<>>]
    ELSE ParsedPackage(name_string, s)

\* Package.has_version_specifier
HasVersionSpecifier(p) == p.plain /\ p.specs # <<>>

\* Package.__str__
PackageStr(p) == IF p.plain THEN p.requirement ELSE p.package_name

\* op applied to two releases, as the specifier applies it: releases are
\* compared with zeros added to the shorter, and ~= w asks for a release
\* that is at least w and has w's segments but the last.
SpecHolds(op, v, w) ==
    LET a == Padded(v, Longer(v, w))
        b == Padded(w, Longer(v, w))
    IN  CASE op = ">=" -> ~ListLess(a, b)
          [] op = "<=" -> ~ListLess(b, a)
          [] op = ">"  -> ListLess(b, a)
          [] op = "<"  -> ListLess(a, b)
          [] op = "==" -> a = b
          [] op = "!=" -> a # b
          [] op = "~=" -> /\ ~ListLess(a, b)
                          /\ SubSeq(a, 1, Len(w) - 1) = SubSeq(w, 1, Len(w) - 1)

\* op_dict[op] applied to two LooseVersions: their lists of segments are
\* compared as Python lists, and "~=" is operator.ge.
OpDict(op, v, w) ==
    CASE op = ">=" -> ~ListLess(v, w)
      [] op = "<=" -> ~ListLess(w, v)
      [] op = ">"  -> ListLess(w, v)
      [] op = "<"  -> ListLess(v, w)
      [] op = "==" -> v = w
      [] op = "!=" -> v # w
      [] op = "~=" -> ~ListLess(v, w)

\* Package.is_satisfied_by(version_to_test), by the requirement's specifier.
IsSatisfiedBy(p, version_to_test) ==
    /\ p.plain
    /\ Len(version_to_test) = 1
    /\ version_to_test[1] \in VersionTokens
    /\ \A i \in 1..Len(p.specs) :
          SpecHolds(p.specs[i][1], Release(version_to_test[1]),
                    Release(p.specs[i][2]))

\* Package.is_satisfied_by(version_to_test) when the requirement has no
\* specifier attribute: lines 288 to 293.
IsSatisfiedByFallback(p, version_to_test) ==
    /\ p.plain
    /\ Len(version_to_test) = 1
    /\ version_to_test[1] \in VersionTokens
    /\ \A i \in 1..Len(p.specs) :
          OpDict(p.specs[i][1], Release(version_to_test[1]), Release(p.specs[i][2]))

\* A requirement handed to _is_present as a plain string, not a Package.
StrReq(s) == [exc |-> "str", package_name |-> s, plain |-> FALSE,
              specs |-> <<>>, requirement |-> s]

RECURSIVE IsPresent(_, _)
\* _is_present(module, req, installed_pkgs): "true", "false", or the
\* exception the loop raises at the first entry that raises one.
IsPresent(req, installed_pkgs) ==
    IF installed_pkgs = <<>> THEN "false"
    ELSE LET pkg == Head(installed_pkgs)
             parts == Split(pkg, "==")
         IN  IF ~Contains(pkg, "==") THEN IsPresent(req, Tail(installed_pkgs))
             ELSE IF Len(parts) # 2 THEN "ValueError"
             ELSE IF req.exc = "str" THEN "AttributeError"
             ELSE IF Lower(parts[1]) = req.package_name /\ IsSatisfiedBy(req, parts[2])
                  THEN "true"
                  ELSE IsPresent(req, Tail(installed_pkgs))

\* The msg of _fail(module, cmd, out, err).
FailMsg(out, err) ==
    (IF out # <<>> THEN <<"stdout: ">> \o out ELSE <<>>)
    \o (IF err # <<>> THEN <<"\n:stderr: ">> \o err ELSE <<>>)

\* ---------------------------------------------------------- arguments

\* state_map of the pip module.
StateMap(state) ==
    CASE state = "present" -> << <<"install">> >>
      [] state = "absent" -> << <<"uninstall">>, <<"-y">> >>
      [] state = "latest" -> << <<"install">>, <<"-U">> >>
      [] state = "forcereinstall" ->
            << <<"install">>, <<"-U">>, <<"--force-reinstall">> >>

\* The name and requirements inputs: exactly one of the two is given
\* (required_one_of and mutually_exclusive of the argument spec).
SourceInputs ==
    { [name |-> NoList, requirements |-> <<"req.txt">>],
      [name |-> <<>>, requirements |-> None],
      [name |-> << <<"a">> >>, requirements |-> None],
      [name |-> << <<"a">>, <<"b">> >>, requirements |-> None],
      [name |-> << <<"a", ">", "1">> >>, requirements |-> None],
      [name |-> << <<"git+", "u">> >>, requirements |-> None] }

\* The version input.
VersionInputs == { None, <<"1">>, <<">=", "1">> }

\* The extra_args input.
ExtraArgsInputs == { None, <<"--force-reinstall">>, <<"--pre", " ", " ", "-e">> }

\* The umask input: absent, empty, octal, and not octal.
UmaskInputs == { None, <<>>, <<"022">>, <<"9">> }

\* int(umask, 8): whether it parses, and its value.
OctalValid(umask) == Len(umask) = 1 /\ umask[1] \in {"022", "0"}
OctalValue(umask) == IF umask[1] = "022" THEN 18 ELSE 0

\* The umask a process may start with.
StartUmasks == {0, 63}

\* The options of the virtualenv creation: virtualenv_command,
\* virtualenv_site_packages and virtualenv_python.
VenvOptions ==
    { [command |-> <<"virtualenv">>, site_packages |-> FALSE, python |-> None],
      [command |-> <<"/", "opt", "/", "virtualenv">>, site_packages |-> TRUE,
       python |-> <<"python2.7">>],
      [command |-> <<"pyvenv">>, site_packages |-> FALSE, python |-> None],
      [command |-> <<"python3", " ", "-m venv">>, site_packages |-> TRUE,
       python |-> <<"python3.5">>] }

\* The virtualenv and executable inputs: mutually exclusive.
EnvInputs ==
    { [virtualenv |-> None, executable |-> None],
      [virtualenv |-> None, executable |-> <<"/", "usr", "/", "bin", "/", "pip-3.3">>],
      [virtualenv |-> None, executable |-> <<"pip-3.3">>],
      [virtualenv |-> <<"venv">>, executable |-> None] }

\* The default creation options.
DefaultVenv == [command |-> <<"virtualenv">>, site_packages |-> FALSE, python |-> None]

\* A run of the pip module with a requirements file and every other argument
\* at its default.
PipDefault ==
    [module |-> "pip", check_mode |-> FALSE, state |-> "present", name |-> NoList,
     requirements |-> <<"req.txt">>, version |-> None, virtualenv |-> None,
     executable |-> None, venv |-> DefaultVenv, extra_args |-> None,
     editable |-> FALSE, chdir |-> None, umask |-> None, has_setuptools |-> TRUE,
     path |-> None, include_dev |-> FALSE]

\* A run of the pipenv module (it has no check mode) with every optional
\* argument at its default.
PipenvDefault ==
    [module |-> "pipenv", check_mode |-> FALSE, state |-> "present", name |-> NoList,
     requirements |-> None, version |-> None, virtualenv |-> None,
     executable |-> None, venv |-> DefaultVenv, extra_args |-> None,
     editable |-> FALSE, chdir |-> None, umask |-> None, has_setuptools |-> TRUE,
     path |-> <<"/", "proj">>, include_dev |-> FALSE]

\* A session: the arguments of its runs, whether the virtualenv exists on the
\* host, and the umask and VIRTUAL_ENV its processes start with.
Session(a, venv_exists, start_umask, start_virtual_env) ==
    [args |-> a, venv_exists |-> venv_exists, start_umask |-> start_umask,
     start_virtual_env |-> start_virtual_env]

\* The states of the pip module.
States == {"present", "absent", "latest", "forcereinstall"}

\* The sessions of the pip module.  Each family varies the arguments that
\* meet in one part of main() and leaves the others at their defaults.
PipSessions ==
    \* what is installed: check mode, state, name or requirements, version
    { Session([PipDefault EXCEPT !.check_mode = cm, !.state = st, !.name = src.name,
                                 !.requirements = src.requirements, !.version = ver],
              FALSE, 63, None) :
         cm \in BOOLEAN, st \in States, src \in SourceInputs, ver \in VersionInputs }
    \cup
    \* the command: state, extra_args, editable, executable
    { Session([PipDefault EXCEPT !.state = st, !.extra_args = ea, !.editable = ed,
                                 !.executable = e.executable],
              FALSE, 63, None) :
         st \in States, ea \in ExtraArgsInputs, ed \in BOOLEAN,
         e \in { x \in EnvInputs : x.virtualenv = None } }
    \cup
    \* the virtualenv: its creation options, whether it exists, check mode
    { Session([PipDefault EXCEPT !.check_mode = cm, !.state = st,
                                 !.virtualenv = <<"venv">>, !.venv = vo, !.chdir = cd],
              ve, 63, None) :
         cm \in BOOLEAN, st \in {"present", "absent"}, vo \in VenvOptions,
         cd \in {None, <<"/", "w">>}, ve \in BOOLEAN }
    \cup
    \* the umask and setuptools, with a state and a version, with and without
    \* a virtualenv to create
    { Session([PipDefault EXCEPT !.umask = um, !.has_setuptools = hs, !.state = st,
                                 !.version = ver, !.virtualenv = env],
              FALSE, su, None) :
         um \in UmaskInputs, hs \in BOOLEAN, st \in {"present", "latest"},
         ver \in {None, <<"1">>}, env \in {None, <<"venv">>}, su \in StartUmasks }

\* The sessions of the pipenv module.
PipenvSessions ==
    \* the executables: virtualenv, executable, chdir
    { Session([PipenvDefault EXCEPT !.virtualenv = e.virtualenv,
                                    !.executable = e.executable, !.chdir = cd],
              ve, 63, sv) :
         e \in EnvInputs, cd \in {None, <<"/", "w">>, <<"w">>}, ve \in BOOLEAN,
         sv \in {None, <<"other">>} }
    \cup
    \* the virtualenv: its creation options, and include_dev
    { Session([PipenvDefault EXCEPT !.virtualenv = <<"venv">>, !.venv = vo,
                                    !.include_dev = dev],
              FALSE, 63, None) : vo \in VenvOptions, dev \in BOOLEAN }
    \cup
    \* the umask and setuptools, with and without a virtualenv
    { Session([PipenvDefault EXCEPT !.umask = um, !.has_setuptools = hs,
                                    !.virtualenv = env],
              ve, su, None) :
         um \in UmaskInputs, hs \in BOOLEAN, env \in {None, <<"venv">>},
         ve \in BOOLEAN, su \in StartUmasks }

\* ------------------------------------------------------------- state

VARIABLES
    args,     \* the arguments of the session's runs
    host,     \* the host: whether <virtualenv>/bin/activate exists
    runNo,    \* the number of the run, 1..MaxRuns
    pc,       \* the place of the run in main()
    proc,     \* the process: its umask and VIRTUAL_ENV, now and at its start
    loc,      \* the local variables of main()
    log,      \* the subprocesses the run has run, in order: kind, cmd, rc
    report,   \* how the run ended: exit_json, fail_json or an exception
    prev,     \* how the previous run of the session ended
    call      \* a call of a function of module_utils/pip.py on its own

vars == <<args, host, runNo, pc, proc, loc, log, report, prev, call>>

\* No report yet.
NoReport ==
    [kind |-> "none", changed |-> FALSE, msg |-> <<>>, has_cmd |-> FALSE,
     cmd |-> <<>>, stdout |-> <<>>, stderr |-> <<>>]

\* module.exit_json(changed=changed, cmd=cmd, stdout=out, stderr=err)
ExitJson(changed, cmd, out, err) ==
    [kind |-> "exit", changed |-> changed, msg |-> <<>>, has_cmd |-> TRUE,
     cmd |-> cmd, stdout |-> out, stderr |-> err]

\* module.exit_json(changed=changed) without a command.
ExitJsonPlain(changed, msg) ==
    [kind |-> "exit", changed |-> changed, msg |-> msg, has_cmd |-> FALSE,
     cmd |-> <<>>, stdout |-> <<>>, stderr |-> <<>>]

\* module.fail_json(msg=msg)
FailJson(msg) ==
    [kind |-> "fail", changed |-> FALSE, msg |-> msg, has_cmd |-> FALSE,
     cmd |-> <<>>, stdout |-> <<>>, stderr |-> <<>>]

\* _fail(module, cmd, out, err)
Fail(cmd, out, err) ==
    [kind |-> "fail", changed |-> FALSE, msg |-> FailMsg(out, err), has_cmd |-> TRUE,
     cmd |-> cmd, stdout |-> out, stderr |-> err]

\* An exception no handler catches.
Uncaught(exc) ==
    [kind |-> "exception", changed |-> FALSE, msg |-> <<exc>>, has_cmd |-> FALSE,
     cmd |-> <<>>, stdout |-> <<>>, stderr |-> <<>>]

\* What is kept of the run before: how it ended.
Summary(rep) == [kind |-> rep.kind, changed |-> rep.changed]

\* The local variables of main() before its first statement.
InitLoc ==
    [umask_set |-> FALSE, umask |-> 0, old_umask_set |-> FALSE, old_umask |-> 0,
     env |-> None, chdir |-> None, venv_created |-> FALSE, out |-> <<>>, err |-> <<>>,
     pip |-> <<>>, cmd |-> <<>>, packages |-> <<>>, has_vcs |-> FALSE,
     extra_args |-> None, freeze_before_set |-> FALSE, out_freeze_before |-> <<>>,
     rc |-> 0, out_pip |-> <<>>, listing |-> <<>>, pipenv_installed |-> FALSE,
     ran_pipenv |-> FALSE]

\* A process as it starts: the umask and VIRTUAL_ENV it inherits.
StartProc(u, v) ==
    [umask |-> u, start_umask |-> u, virtual_env |-> v, start_virtual_env |-> v]

\* No function is called on its own.
NoCall ==
    [fn |-> "none", done |-> FALSE, names |-> <<>>, package_names |-> <<>>,
     req |-> StrReq(<<>>), installed_pkgs |-> <<>>, is_present |-> "none",
     version_to_test |-> <<>>, by_specifier |-> FALSE, by_fallback |-> FALSE]

Init ==
    \E s \in PipSessions \cup PipenvSessions :
        /\ call = NoCall
        /\ args = s.args
        /\ host = [venv_exists |-> s.venv_exists]
        /\ runNo = 1
        /\ pc = "begin"
        /\ proc = StartProc(s.start_umask, s.start_virtual_env)
        /\ loc = InitLoc
        /\ log = <<>>
        /\ report = NoReport
        /\ prev = Summary(NoReport)

\* ------------------------------------------------------- environment

\* PY3 of ansible.module_utils.six: the interpreter of the run is Python 3.
PY3 == TRUE

\* What "<virtualenv command> --help" may give: its exit code, and whether
\* its output lists --no-site-packages.
HelpOutcomes ==
    { [rc |-> 0, nosite |-> TRUE, out |-> <<"--no-site-packages">>, err |-> <<>>],
      [rc |-> 0, nosite |-> FALSE, out |-> <<"--help">>, err |-> <<>>],
      [rc |-> 1, nosite |-> FALSE, out |-> <<>>, err |-> <<"error">>] }

\* What a subprocess that only succeeds or fails may give.
PlainOutcomes ==
    { [rc |-> 0, out |-> <<"done">>, err |-> <<>>],
      [rc |-> 1, out |-> <<>>, err |-> <<"error">>],
      [rc |-> 1, out |-> <<>>, err |-> <<>>] }

\* What "pip list --format=freeze" or "pip freeze" may print.
ListOuts ==
    { <<>>,
      <<"a", "==", "1", "\n">>,
      <<"pipenv", "==", "1", "\n", "A", "==", "2", "\n">> }

\* What the pip install or uninstall command may give.
PipOutcomes ==
    { [rc |-> 0, out |-> <<"Successfully installed">>, err |-> <<>>],
      [rc |-> 0, out |-> <<"Requirement already satisfied">>, err |-> <<>>],
      [rc |-> 0, out |-> <<"Successfully uninstalled">>, err |-> <<>>],
      [rc |-> 1, out |-> <<>>, err |-> <<"not installed">>],
      [rc |-> 1, out |-> <<>>, err |-> <<"error">>],
      [rc |-> 2, out |-> <<"not installed">>, err |-> <<>>] }

\* A subprocess of the log: module.run_command(cmd) and what it returned. A
\* command given as one string is the one-element list of that string.
Ran(kind, cmd, o) == [kind |-> kind, cmd |-> cmd, rc |-> o.rc, out |-> o.out, err |-> o.err]

\* What a listing command that fails may give.
ListFailures == { [rc |-> 1, out |-> <<>>, err |-> <<"error">>] }

\* _get_packages(module, pip, chdir): the subprocesses it runs and either
\* (command, out, err) or the failure it reports.
GetPackagesOutcomes(pip) ==
    LET list == pip \o <<" ", "list", " ", "--format=freeze">>
        freeze == pip \o <<" ", "freeze">>
        Ok(o) == [rc |-> 0, out |-> o, err |-> <<>>]
    IN  { [failed |-> FALSE, command |-> list, out |-> o, err |-> <<>>,
           log |-> << Ran("pip_list", <<list>>, Ok(o)) >>] : o \in ListOuts }
        \cup
        { [failed |-> FALSE, command |-> freeze, out |-> o, err |-> <<>>,
           log |-> << Ran("pip_list", <<list>>, f), Ran("pip_freeze", <<freeze>>, Ok(o)) >>] :
             o \in ListOuts, f \in ListFailures }
        \cup
        { [failed |-> TRUE, command |-> freeze, out |-> g.out, err |-> g.err,
           log |-> << Ran("pip_list", <<list>>, f), Ran("pip_freeze", <<freeze>>, g) >>] :
             f \in ListFailures, g \in ListFailures }

\* _get_package_info(module, package, env): python is not found, or the
\* one-liner is run and exits with rc, printing a version.
PackageInfoOutcomes ==
    { [found |-> FALSE, rc |-> 0, out |-> <<>>, err |-> <<>>],
      [found |-> TRUE, rc |-> 0, out |-> <<"1", "\n">>, err |-> <<>>],
      [found |-> TRUE, rc |-> 1, out |-> <<>>, err |-> <<"error">>] }

\* The python _get_package_info finds.
PythonBin(env) == IF Truthy(env) THEN env \o <<"/", "bin", "/", "python">>
                  ELSE <<"/", "usr", "/", "bin", "/", "python">>

\* The log entries of _get_package_info(module, package, env).
PackageInfoLog(package, env, o) ==
    IF o.found
    THEN << Ran("python", << PythonBin(env), <<"-c">>, <<"print version of", package>> >>, o) >>
    ELSE <<>>

\* formatted_dep of _get_package_info: whether it is not None, and its value.
PackageInfoGiven(o) == o.found /\ o.rc = 0
PackageInfoDep(package, o) == <<package, "==">> \o SelectSeq(o.out, LAMBDA t : t # "\n")

\* ------------------------------------------------------------ the run

\* The run ends before main() enters its try statement.
EndOutside(rep) == pc' = "done" /\ report' = rep

\* The run ends inside the try statement: the finally clause is still to run.
EndInside(rep) == pc' = "finally" /\ report' = rep

\* os.path.join(chdir, env)
PathJoin(a, b) == IF b # <<>> /\ Head(b) = "/" THEN b ELSE a \o <<"/">> \o b

\* Line 307 without its check.
VersionConflictsNever(state, version) == FALSE

\* Line 307 of the pip module: version is incompatible with state=latest.
VersionConflictsWithState(state, version) == state = "latest" /\ version # None

\* A module that never sees check mode.
InCheckModeNever == FALSE

\* module.check_mode
InCheckMode == args.check_mode

\* Line 243 without its check of the exit code.
CreateFailedNever(rc) == FALSE

\* Line 243 of setup_virtualenv: the creation command failed.
CreateFailed(rc) == rc # 0

\* main() of both modules, from the setuptools check to the try statement,
\* and the first statement of the pip module's try.
Begin(latest_check, next) ==
    /\ pc = "begin"
    /\ UNCHANGED <<call, args, host, runNo, log, prev>>
    /\ IF ~args.has_setuptools
       THEN /\ EndOutside(FailJson(<<"No setuptools found in remote host, please install it first.">>))
            /\ UNCHANGED <<proc, loc>>
       ELSE IF Truthy(args.umask) /\ ~OctalValid(args.umask)
       THEN /\ EndOutside(FailJson(<<"umask must be an octal integer">>))
            /\ UNCHANGED <<proc, loc>>
       ELSE IF args.umask = <<>>
       THEN \* os.umask('') raises a TypeError and changes nothing
            /\ EndOutside(Uncaught("TypeError"))
            /\ UNCHANGED <<proc, loc>>
       ELSE LET given == args.umask # None
                umask == IF given THEN OctalValue(args.umask) ELSE 0
                env == IF Truthy(args.virtualenv) /\ Truthy(args.chdir)
                       THEN PathJoin(args.chdir, args.virtualenv)
                       ELSE args.virtualenv
                loc1 == [loc EXCEPT !.umask_set = given, !.umask = umask,
                                    !.old_umask_set = given,
                                    !.old_umask = IF given THEN proc.umask ELSE 0,
                                    !.env = env, !.extra_args = args.extra_args]
            IN  /\ proc' = IF given THEN [proc EXCEPT !.umask = umask] ELSE proc
                /\ IF latest_check /\ VersionConflictsWithState(args.state, args.version)
                   THEN /\ loc' = loc1
                        /\ EndInside(FailJson(<<"version is incompatible with state=latest">>))
                   ELSE /\ loc' = [loc1 EXCEPT !.chdir = IF args.chdir = None
                                                        THEN <<"/", "tmp">>
                                                        ELSE args.chdir]
                        /\ pc' = next
                        /\ UNCHANGED report

\* The pip module: lines 280 to 315 of main().
PipBegin == args.module = "pip" /\ Begin(TRUE, "venv")

\* The command setup_virtualenv builds before the virtualenv's path: the
\* executable, the site-packages option, the -p option.
VenvCommand(help) ==
    LET cmd0 == IF ~Contains(args.venv.command, "/")
                THEN <<"/", "usr", "/", "bin", "/">> \o args.venv.command
                ELSE args.venv.command
        cmd1 == IF args.venv.site_packages THEN cmd0 \o <<" ", "--system-site-packages">>
                ELSE IF help.nosite THEN cmd0 \o <<" ", "--no-site-packages">>
                ELSE cmd0
    IN  IF ~(Contains(args.venv.command, "pyvenv") \/ Contains(args.venv.command, "-m venv"))
        THEN IF Truthy(args.venv.python) THEN cmd1 \o <<" ", "-p">> \o args.venv.python
             ELSE IF PY3 THEN cmd1 \o <<" ", "-p", "sys.executable">>
             ELSE cmd1
        ELSE cmd1

\* The "<cmd> --help" of _get_cmd_options.
VenvHelpCommand ==
    (IF ~Contains(args.venv.command, "/")
     THEN <<"/", "usr", "/", "bin", "/">> \o args.venv.command
     ELSE args.venv.command) \o <<" ", "--help">>

\* Lines 317 to 320 of the pip module's main(), 216 to 219 of the pipenv
\* module's, with setup_virtualenv(module, env, chdir, out, err): when the
\* virtualenv is given and has no bin/activate, the creation command is built
\* and run.
SetupVirtualenv(next) ==
    /\ pc = "venv"
    /\ UNCHANGED <<call, args, runNo, proc, prev>>
    /\ IF ~Truthy(loc.env) \/ host.venv_exists
       THEN pc' = next /\ UNCHANGED <<host, loc, log, report>>
       ELSE IF InCheckMode
       THEN /\ loc' = [loc EXCEPT !.venv_created = TRUE]
            /\ EndInside(ExitJsonPlain(TRUE, <<>>))
            /\ UNCHANGED <<host, log>>
       ELSE \E found \in BOOLEAN, help \in HelpOutcomes, create \in PlainOutcomes :
            LET helps == IF args.venv.site_packages THEN <<>>
                         ELSE << Ran("venv_help", <<VenvHelpCommand>>, help) >>
                cmd == VenvCommand(help) \o <<" ">> \o loc.env
                out == loc.out \o create.out
                err == loc.err \o create.err
                loc1 == [loc EXCEPT !.venv_created = TRUE]
            IN  IF ~Contains(args.venv.command, "/") /\ ~found
                THEN \* get_bin_path(cmd, True) reports the failure
                     /\ EndInside(FailJson(<<"Failed to find required executable">>))
                     /\ loc' = loc1
                     /\ UNCHANGED <<host, log>>
                ELSE IF ~args.venv.site_packages /\ help.rc # 0
                THEN /\ EndInside(FailJson(<<"Could not get output from ">> \o VenvHelpCommand
                                         \o <<": ">> \o help.out \o help.err))
                     /\ loc' = loc1
                     /\ log' = log \o helps
                     /\ UNCHANGED host
                ELSE IF /\ Contains(args.venv.command, "pyvenv")
                           \/ Contains(args.venv.command, "-m venv")
                        /\ Truthy(args.venv.python)
                THEN /\ EndInside(FailJson(<<"virtualenv_python should not be used when using the venv module or pyvenv as virtualenv_command">>))
                     /\ loc' = loc1
                     /\ log' = log \o helps
                     /\ UNCHANGED host
                ELSE /\ log' = log \o helps \o << Ran("venv_create", <<cmd>>, create) >>
                     /\ loc' = [loc1 EXCEPT !.out = out, !.err = err]
                     /\ IF CreateFailed(create.rc)
                        THEN EndInside(Fail(<<cmd>>, out, err)) /\ UNCHANGED host
                        ELSE /\ host' = [host EXCEPT !.venv_exists = TRUE]
                             /\ pc' = next
                             /\ UNCHANGED report

\* The pip module: lines 317 to 320 of main().
PipVenv == args.module = "pip" /\ SetupVirtualenv("build")

\* _get_pip(module, env, executable): the names it looks for, in order, when
\* the executable is not an absolute path.
PipCandidates(env, executable) ==
    LET base == IF executable # None THEN << executable >>
                ELSE IF PY3 THEN << <<"pip3">> >>
                ELSE << <<"pip2">>, <<"pip">> >>
    IN  IF env = None THEN base ELSE << base[1], <<"pip">> >>

\* _get_pip: the path of candidate basename.
PipPath(env, basename) ==
    IF env = None THEN <<"/", "usr", "/", "bin", "/">> \o basename
    ELSE env \o <<"/", "bin", "/">> \o basename

\* _get_pip(module, env, executable), found being the place of the first
\* candidate that exists (0: none does): the pip, or <<>> when it reports
\* that there is none.
GetPip(env, executable, found) ==
    IF executable # None /\ executable # <<>> /\ Head(executable) = "/"
    THEN executable
    ELSE IF found = 0 THEN <<>>
    ELSE PipPath(env, PipCandidates(env, executable)[found])

\* The failure _get_pip reports.
NoPip(env) ==
    IF env = None THEN FailJson(<<"Unable to find any pip to use. pip needs to be installed.">>)
    ELSE FailJson(<<"Unable to find pip in the virtualenv">>)

\* [Package(pkg) for pkg in names]
Packages(names) == [i \in 1..Len(names) |-> Package(names[i], None)]

\* Lines 362 to 369: extra_args after the editable option is applied.
EditableArgs(extra_args, editable) ==
    LET args_list == IF Truthy(extra_args) THEN Split(extra_args, " ") ELSE <<>>
    IN  IF editable /\ ~(\E i \in 1..Len(args_list) : args_list[i] = <<"-e">>)
        THEN Join(Append(args_list, <<"-e">>), <<" ">>)
        ELSE extra_args

\* Lines 324 and 371 to 377 with extra_args added after the packages.
BuildCmdArgsLast(pip, state, extra_args, name, packages, requirements) ==
    << pip >> \o StateMap(state)
    \o (IF TruthyList(name) THEN [i \in 1..Len(packages) |-> PackageStr(packages[i])]
        ELSE IF Truthy(requirements) THEN << <<"-r">>, requirements >>
        ELSE <<>>)
    \o (IF Truthy(extra_args) THEN ShlexSplit(extra_args) ELSE <<>>)

\* Lines 324 and 371 to 377: the command of the run.
BuildCmd(pip, state, extra_args, name, packages, requirements) ==
    << pip >> \o StateMap(state)
    \o (IF Truthy(extra_args) THEN ShlexSplit(extra_args) ELSE <<>>)
    \o (IF TruthyList(name) THEN [i \in 1..Len(packages) |-> PackageStr(packages[i])]
        ELSE IF Truthy(requirements) THEN << <<"-r">>, requirements >>
        ELSE <<>>)

\* The pip module: lines 322 to 382 of main(): the pip executable, the
\* packages, the checks of the version argument and the command.
PipBuildCmd ==
    /\ args.module = "pip"
    /\ pc = "build"
    /\ UNCHANGED <<call, args, host, runNo, proc, log, prev>>
    /\ \E found \in 0..Len(PipCandidates(loc.env, args.executable)) :
       LET pip == GetPip(loc.env, args.executable, found)
           has_vcs == /\ TruthyList(args.name)
                      /\ \E i \in 1..Len(args.name) : IsVcsUrl(args.name[i])
           packages0 == IF TruthyList(args.name) THEN Packages(RecoverPackageName(args.name))
                        ELSE <<>>
           raised0 == \E i \in 1..Len(packages0) : packages0[i].exc # "none"
           versioned == TruthyList(args.name) /\ args.version # None
           replaced == Package(packages0[1].package_name, args.version)
           packages == IF versioned THEN [packages0 EXCEPT ![1] = replaced] ELSE packages0
           extra_args == EditableArgs(loc.extra_args, args.editable)
           cmd == BuildCmd(pip, args.state, extra_args, args.name, packages,
                           args.requirements)
           loc1 == [loc EXCEPT !.pip = pip, !.has_vcs = has_vcs]
       IN  IF pip = <<>>
           THEN EndInside(NoPip(loc.env)) /\ loc' = loc
           ELSE IF raised0
           THEN EndInside(Uncaught("NameError")) /\ loc' = loc1
           ELSE IF versioned /\ Len(packages0) > 1
           THEN /\ EndInside(FailJson(<<"'version' argument is ambiguous when installing multiple package distributions.">>))
                /\ loc' = [loc1 EXCEPT !.packages = packages0]
           ELSE IF versioned /\ HasVersionSpecifier(packages0[1])
           THEN /\ EndInside(FailJson(<<"The 'version' argument conflicts with any version specifier provided along with a package name.">>))
                /\ loc' = [loc1 EXCEPT !.packages = packages0]
           ELSE IF versioned /\ replaced.exc # "none"
           THEN EndInside(Uncaught("NameError")) /\ loc' = loc1
           ELSE /\ loc' = [loc1 EXCEPT !.packages = packages, !.extra_args = extra_args,
                                       !.cmd = cmd]
                /\ IF ~TruthyList(args.name) /\ ~Truthy(args.requirements)
                   THEN EndInside(ExitJsonPlain(FALSE, <<"No valid name or requirements file found.">>))
                   ELSE /\ pc' = IF InCheckMode THEN "check" ELSE "freeze_before"
                        /\ UNCHANGED report

\* Line 395: the lines of the listing that name packages.
PkgList(out) ==
    SelectSeq(Split(out, "\n"),
              LAMBDA l : l # <<>> /\ Head(l) \notin {"You are using", "You should consider"})

RECURSIVE CheckChanged(_, _, _)
\* Lines 408 to 412: "true" or "false", the changed of the check-mode loop
\* over the packages, or the exception _is_present raises.
CheckChanged(state, packages, pkg_list) ==
    IF packages = <<>> THEN "false"
    ELSE LET is_present == IsPresent(Head(packages), pkg_list)
         IN  IF is_present \notin {"true", "false"} THEN is_present
             ELSE IF \/ state = "present" /\ is_present = "false"
                     \/ state = "absent" /\ is_present = "true"
                  THEN "true"
                  ELSE CheckChanged(state, Tail(packages), pkg_list)

\* x in name, for a string x and the list name.
InList(name, x) == \E i \in 1..Len(name) : name[i] = x

\* The pip module: lines 384 to 413 of main(), the run in check mode.
PipCheckMode ==
    /\ args.module = "pip"
    /\ pc = "check"
    /\ UNCHANGED <<call, args, host, runNo, proc, prev>>
    /\ IF \/ Truthy(loc.extra_args) \/ Truthy(args.requirements)
          \/ args.state = "latest" \/ ~TruthyList(args.name)
       THEN EndInside(ExitJsonPlain(TRUE, <<>>)) /\ UNCHANGED <<loc, log>>
       ELSE \E got \in GetPackagesOutcomes(loc.pip),
               st \in PackageInfoOutcomes, pi \in PackageInfoOutcomes :
            LET special == /\ got.command[Len(got.command)] = "freeze"
                           /\ got.command[Len(got.command) - 1] = " "
                           /\ InList(args.name, <<"pip">>) \/ InList(args.name, <<"setuptools">>)
                ask_st == special /\ InList(args.name, <<"setuptools">>)
                ask_pi == special /\ InList(args.name, <<"pip">>)
                deps == (IF ask_st /\ PackageInfoGiven(st)
                         THEN << PackageInfoDep("setuptools", st) >> ELSE <<>>)
                        \o (IF ask_pi /\ PackageInfoGiven(pi)
                            THEN << PackageInfoDep("pip", pi) >> ELSE <<>>)
                out0 == loc.out \o got.out
                err == loc.err \o got.err
                pkg_list == PkgList(out0) \o deps
                out == out0 \o Flatten([i \in 1..Len(deps) |-> deps[i] \o <<"\n">>])
                changed == CheckChanged(args.state, loc.packages, pkg_list)
            IN  /\ log' = log \o got.log
                           \o (IF ask_st THEN PackageInfoLog("setuptools", loc.env, st) ELSE <<>>)
                           \o (IF ask_pi THEN PackageInfoLog("pip", loc.env, pi) ELSE <<>>)
                /\ IF got.failed
                   THEN /\ EndInside(Fail(<<got.command>>, got.out, got.err))
                        /\ UNCHANGED loc
                   ELSE /\ loc' = [loc EXCEPT !.out = out, !.err = err]
                        /\ IF changed \notin {"true", "false"}
                           THEN EndInside(Uncaught(changed))
                           ELSE EndInside(ExitJson(changed = "true", <<got.command>>, out, err))

\* The pip module: lines 415 to 417 of main(), the listing before the
\* command.
PipFreezeBefore ==
    /\ args.module = "pip"
    /\ pc = "freeze_before"
    /\ UNCHANGED <<call, args, host, runNo, proc, prev>>
    /\ IF Truthy(args.requirements) \/ loc.has_vcs
       THEN \E got \in GetPackagesOutcomes(loc.pip) :
            /\ log' = log \o got.log
            /\ IF got.failed
               THEN EndInside(Fail(<<got.command>>, got.out, got.err)) /\ UNCHANGED loc
               ELSE /\ loc' = [loc EXCEPT !.freeze_before_set = TRUE,
                                          !.out_freeze_before = got.out]
                    /\ pc' = "run"
                    /\ UNCHANGED report
       ELSE pc' = "run" /\ UNCHANGED <<loc, log, report>>

\* Lines 422 to 426 with an exit code of 1 let through in every state.
CommandFailedLoose(state, rc, out_pip, err_pip) == rc > 1

\* Lines 422 to 426: whether the exit code of the command is a failure.
CommandFailed(state, rc, out_pip, err_pip) ==
    IF /\ rc = 1 /\ state = "absent"
       /\ Contains(out_pip, "not installed") \/ Contains(err_pip, "not installed")
    THEN FALSE
    ELSE rc # 0

\* The pip module: lines 419 to 426 of main(), the install or uninstall
\* command.
PipRunCmd ==
    /\ args.module = "pip"
    /\ pc = "run"
    /\ UNCHANGED <<call, args, host, runNo, proc, prev>>
    /\ \E o \in PipOutcomes :
       LET out == loc.out \o o.out
           err == loc.err \o o.err
       IN  /\ log' = Append(log, Ran("pip_cmd", loc.cmd, o))
           /\ loc' = [loc EXCEPT !.out = out, !.err = err, !.rc = o.rc, !.out_pip = o.out]
           /\ IF CommandFailed(args.state, o.rc, o.out, o.err)
              THEN EndInside(Fail(loc.cmd, out, err))
              ELSE pc' = "finish" /\ UNCHANGED report

\* Lines 428 to 437: changed, after being the listing after the command.
Changed(state, out_pip, freeze_before_set, out_freeze_before, after, venv_created) ==
    \/ IF state = "absent" THEN Contains(out_pip, "Successfully uninstalled")
       ELSE IF ~freeze_before_set THEN Contains(out_pip, "Successfully installed")
       ELSE out_freeze_before # after
    \/ venv_created

\* The pip module: lines 428 to 441 of main(): changed, and the exit.
PipFinish ==
    /\ args.module = "pip"
    /\ pc = "finish"
    /\ UNCHANGED <<call, args, host, runNo, proc, prev, loc>>
    /\ IF args.state # "absent" /\ loc.freeze_before_set
       THEN \E got \in GetPackagesOutcomes(loc.pip) :
            /\ log' = log \o got.log
            /\ IF got.failed
               THEN EndInside(Fail(<<got.command>>, got.out, got.err))
               ELSE EndInside(ExitJson(
                        Changed(args.state, loc.out_pip, TRUE, loc.out_freeze_before,
                                got.out, loc.venv_created),
                        loc.cmd, loc.out, loc.err))
       ELSE /\ EndInside(ExitJson(
                   Changed(args.state, loc.out_pip, loc.freeze_before_set,
                           loc.out_freeze_before, <<>>, loc.venv_created),
                   loc.cmd, loc.out, loc.err))
            /\ UNCHANGED log

\* The finally clause with "if old_umask:" for "if old_umask is not None:".
FinallyTruthy ==
    /\ pc = "finally"
    /\ proc' = IF loc.old_umask_set /\ loc.old_umask # 0
                THEN [proc EXCEPT !.umask = loc.old_umask] ELSE proc
    /\ pc' = "done"
    /\ UNCHANGED <<call, args, host, runNo, loc, log, report, prev>>

\* The finally clause of main(), in both modules: the umask is reset.
Finally ==
    /\ pc = "finally"
    /\ proc' = IF loc.old_umask_set THEN [proc EXCEPT !.umask = loc.old_umask] ELSE proc
    /\ pc' = "done"
    /\ UNCHANGED <<call, args, host, runNo, loc, log, report, prev>>

\* The pipenv module: lines 178 to 214 of main().
PipenvBegin == args.module = "pipenv" /\ Begin(FALSE, "venv")

\* The pipenv module: lines 216 to 219 of main().
PipenvVenv == args.module = "pipenv" /\ SetupVirtualenv("packages")

\* The pipenv module: lines 221 and 222 of main(): _get_pip, called with
\* chdir as its executable, and _get_packages.
PipenvGetPackages ==
    /\ args.module = "pipenv"
    /\ pc = "packages"
    /\ UNCHANGED <<call, args, host, runNo, proc, prev>>
    /\ \E found \in 0..Len(PipCandidates(loc.env, loc.chdir)) :
       LET pip == GetPip(loc.env, loc.chdir, found)
       IN  IF pip = <<>>
           THEN EndInside(NoPip(loc.env)) /\ UNCHANGED <<loc, log>>
           ELSE \E got \in GetPackagesOutcomes(pip) :
                /\ log' = log \o got.log
                /\ IF got.failed
                   THEN /\ EndInside(Fail(<<got.command>>, got.out, got.err))
                        /\ loc' = [loc EXCEPT !.pip = pip]
                   ELSE /\ loc' = [loc EXCEPT !.pip = pip,
                                              !.listing = <<got.command, got.out, got.err>>]
                        /\ pc' = "install_pipenv"
                        /\ UNCHANGED report

\* The command that installs pipenv.
InstallPipenvCmd == << <<"pip">>, <<"install">>, <<"pipenv">> >>

\* The pipenv module: lines 224 to 232 of main(): pipenv is looked for in
\* what _get_packages returned, and installed.
PipenvInstallPipenv ==
    /\ args.module = "pipenv"
    /\ pc = "install_pipenv"
    /\ UNCHANGED <<call, args, host, runNo, proc, prev>>
    /\ LET is_present == IsPresent(StrReq(<<"pipenv">>), loc.listing)
       IN  IF is_present \notin {"true", "false"}
           THEN EndInside(Uncaught(is_present)) /\ UNCHANGED <<loc, log>>
           ELSE IF is_present = "false" /\ Truthy(loc.env)
           THEN \E o \in PlainOutcomes :
                LET out == loc.out \o o.out
                    err == loc.err \o o.err
                IN  /\ log' = Append(log, Ran("pip_install_pipenv", InstallPipenvCmd, o))
                    /\ loc' = [loc EXCEPT !.pipenv_installed = TRUE, !.out = out,
                                          !.err = err]
                    /\ IF o.rc # 0
                       THEN EndInside(Fail(InstallPipenvCmd, out, err))
                       ELSE pc' = "sync" /\ UNCHANGED report
           ELSE pc' = "sync" /\ UNCHANGED <<loc, log, report>>

\* has_changes(module, lockfile, pip)
HasChanges(lockfile, pip) == TRUE

\* _get_pipenv(module, env, executable), found telling whether get_bin_path
\* finds pipenv: the pipenv, or <<>> when it reports that there is none.
GetPipenv(env, executable, found) ==
    IF Truthy(env) THEN env \o <<"/", "bin/pipenv">>
    ELSE IF Truthy(executable) THEN executable
    ELSE IF found THEN <<"/", "usr", "/", "bin", "/", "pipenv">>
    ELSE <<>>

\* Line 237: the pipenv command of a run with the include_dev argument.
SyncCmd(pipenv, include_dev) == << pipenv, <<"sync">> >>

\* The pipenv module: lines 234 to 248 of main(): pipenv sync.
PipenvSync ==
    /\ args.module = "pipenv"
    /\ pc = "sync"
    /\ UNCHANGED <<call, args, host, runNo, prev>>
    /\ IF HasChanges(args.path \o <<"/", "Pipfile.lock">>, loc.pip)
       THEN \E found \in BOOLEAN, o \in PlainOutcomes :
            LET pipenv == GetPipenv(loc.env, args.executable, found)
                cmd == SyncCmd(pipenv, args.include_dev)
                out == loc.out \o o.out
                err == loc.err \o o.err
            IN  IF pipenv = <<>>
                THEN /\ EndInside(FailJson(<<"Unable to find pipenv. pipenv needs to be installed.">>))
                     /\ UNCHANGED <<proc, loc, log>>
                ELSE /\ proc' = IF Truthy(loc.env)
                                THEN [proc EXCEPT !.virtual_env = loc.env] ELSE proc
                     /\ log' = Append(log, Ran("pipenv_sync", cmd, o))
                     /\ loc' = [loc EXCEPT !.cmd = cmd, !.ran_pipenv = TRUE, !.out = out,
                                           !.err = err]
                     /\ IF o.rc # 0
                        THEN EndInside(Fail(cmd, out, err))
                        ELSE pc' = "pipenv_finish" /\ UNCHANGED report
       ELSE pc' = "pipenv_finish" /\ UNCHANGED <<proc, loc, log, report>>

\* The pipenv module: lines 250 to 252 of main(): changed, and the exit.
PipenvFinish ==
    /\ args.module = "pipenv"
    /\ pc = "pipenv_finish"
    /\ EndInside(ExitJson(loc.venv_created \/ loc.pipenv_installed \/ loc.ran_pipenv,
                          loc.cmd, loc.out, loc.err))
    /\ UNCHANGED <<call, args, host, runNo, proc, prev, loc, log>>

\* The next run of the session: a new process, with the same arguments, on
\* the host as the run before left it.
NextRun ==
    /\ pc = "done"
    /\ runNo < MaxRuns
    /\ runNo' = runNo + 1
    /\ prev' = Summary(report)
    /\ report' = NoReport
    /\ log' = <<>>
    /\ loc' = InitLoc
    /\ proc' = [proc EXCEPT !.umask = proc.start_umask,
                            !.virtual_env = proc.start_virtual_env]
    /\ pc' = "begin"
    /\ UNCHANGED <<call, args, host>>

Next ==
    \/ PipBegin
    \/ PipVenv
    \/ PipBuildCmd
    \/ PipCheckMode
    \/ PipFreezeBefore
    \/ PipRunCmd
    \/ PipFinish
    \/ PipenvBegin
    \/ PipenvVenv
    \/ PipenvGetPackages
    \/ PipenvInstallPipenv
    \/ PipenvSync
    \/ PipenvFinish
    \/ Finally
    \/ NextRun

Spec == Init /\ [][Next]_vars

\* ------------------------------------------- the functions on their own

\* The variables of a run.
runVars == <<args, host, runNo, pc, proc, loc, log, report, prev>>

\* The lists of at most n elements of S.
ListsUpTo(S, n) == UNION { [1..k -> S] : k \in 0..n }

\* Entries of the name input: a name, names with specifiers, specifiers on
\* their own, several packages in one entry, and the empty string.
NameStrings ==
    { <<"a">>, <<"a", ">", "1">>, <<"<", "2">>, <<" ", "<", "2">>,
      <<"a", ">", "1", ",", "<", "2">>, <<"a", ",", "b">>, <<>> }

\* Requirement strings: names in both cases, with and without specifiers.
RequirementStrings ==
    { <<"a">>, <<"A">>, <<"a", "==", "1">>, <<"a", "==", "1.0">>,
      <<"a", ">=", "1", ",", "<", "2">>, <<"a", "~=", "1.0">>, <<"a", "!=", "1.1">>,
      <<"a", ">", "1.0", ",", "<=", "2">> }

\* The requirements _is_present is given: Package objects by the pip module
\* (line 409), the string 'pipenv' by the pipenv module (line 224).
Requirements ==
    { ParsedPackage(r, r) : r \in RequirementStrings } \cup { StrReq(<<"pipenv">>) }

\* Lines of a listing.
ListingLines ==
    { <<"a", "==", "1">>, <<"A", "==", "2">>, <<"a", "==", "1.0">>,
      <<"pipenv", "==", "1">>, <<"b">>, <<"-e", "git+", "u">> }

\* A call of fn, before it is made.
NewCall(fn) == [NoCall EXCEPT !.fn = fn]

\* One call of one function, with its arguments.
FnInit ==
    /\ args = PipDefault
    /\ host = [venv_exists |-> FALSE]
    /\ runNo = MaxRuns
    /\ pc = "done"
    /\ proc = StartProc(63, None)
    /\ loc = InitLoc
    /\ log = <<>>
    /\ report = NoReport
    /\ prev = Summary(NoReport)
    /\ call \in
          { [NewCall("_recover_package_name") EXCEPT !.names = n] :
               n \in ListsUpTo(NameStrings, MaxNames) }
          \cup
          { [NewCall("_is_present") EXCEPT !.req = r, !.installed_pkgs = l] :
               r \in Requirements, l \in ListsUpTo(ListingLines, MaxLines) }
          \cup
          { [NewCall("is_satisfied_by") EXCEPT !.req = ParsedPackage(r, r),
                                               !.version_to_test = <<v>>] :
               r \in RequirementStrings, v \in VersionTokens }

\* _recover_package_name(names) is called.
CallRecoverPackageName ==
    /\ call.fn = "_recover_package_name" /\ ~call.done
    /\ call' = [call EXCEPT !.done = TRUE,
                            !.package_names = RecoverPackageName(call.names)]
    /\ UNCHANGED runVars

\* _is_present(module, req, installed_pkgs) is called.
CallIsPresent ==
    /\ call.fn = "_is_present" /\ ~call.done
    /\ call' = [call EXCEPT !.done = TRUE,
                            !.is_present = IsPresent(call.req, call.installed_pkgs)]
    /\ UNCHANGED runVars

\* req.is_satisfied_by(version_to_test) is called, with a requirement that
\* has a specifier and with one that has none.
CallIsSatisfiedBy ==
    /\ call.fn = "is_satisfied_by" /\ ~call.done
    /\ call' = [call EXCEPT !.done = TRUE,
                            !.by_specifier = IsSatisfiedBy(call.req, call.version_to_test),
                            !.by_fallback = IsSatisfiedByFallback(call.req,
                                                                  call.version_to_test)]
    /\ UNCHANGED runVars

FnNext ==
    \/ CallRecoverPackageName
    \/ CallIsPresent
    \/ CallIsSatisfiedBy

FnSpec == FnInit /\ [][FnNext]_vars

\* ------------------------------------------------------------ claims

\* The run has ended: the process is about to exit.
Ended == pc = "done"

\* C3: in both modules, a run that applied the umask argument ends, on every
\* way it can end, with the process umask it started with; a run without the
\* umask argument never changes the process umask.
C3_UmaskRestored ==
    /\ Ended => proc.umask = proc.start_umask
    /\ args.umask = None => proc.umask = proc.start_umask

\* A run that applied a umask other than the one it started with and ended in
\* an exception.
C3_Witness ==
    /\ Ended
    /\ loc.old_umask_set
    /\ loc.umask # proc.start_umask
    /\ report.kind = "exception"

\* C4: every environment variable a run sets (VIRTUAL_ENV, in the pipenv
\* module with a virtualenv) has its prior value again when the run ends.
C4_EnvironRestored == Ended => proc.virtual_env = proc.start_virtual_env

\* The subprocesses that list, install or remove packages.
PackageKinds == {"pip_list", "pip_freeze", "pip_cmd", "pip_install_pipenv", "pipenv_sync"}

\* The subprocesses that only read.
ReadOnlyKinds == {"pip_list", "pip_freeze", "python"}

\* Every subprocess of the run exited with code 0.
AllSucceeded == \A i \in 1..Len(log) : log[i].rc = 0

\* The umask argument is absent or an octal number.
UmaskUsable == args.umask = None \/ OctalValid(args.umask)

\* s ends with t.
EndsWith(s, t) == Len(t) <= Len(s) /\ SubSeq(s, Len(s) - Len(t) + 1, Len(s)) = t

\* Every name of the list is one project name and nothing else.
PlainNames(name) == \A i \in 1..Len(name) : Len(name[i]) = 1 /\ name[i][1] \in NameTokens

ListingShowsPipenv == loc.listing # <<>> /\ Contains(loc.listing[2], "pipenv")

\* C2: idempotence of the pipenv module: the second of two consecutive runs
\* with the same arguments, on a host whose virtualenv exists and lists
\* pipenv as installed and where no subprocess fails, reports changed=false.
C2_PipenvIdempotent ==
    ( /\ args.module = "pipenv" /\ runNo = 2 /\ Ended /\ prev.kind = "exit"
      /\ Truthy(loc.env) /\ ~loc.venv_created
      /\ args.has_setuptools /\ UmaskUsable
      /\ ListingShowsPipenv /\ AllSucceeded )
    => (report.kind = "exit" /\ ~report.changed)

\* The report is the failure _fail makes of subprocess e: its command, and a
\* msg made of the captured stdout and stderr, which end with e's.
FailureOf(e) ==
    /\ report.kind = "fail" /\ report.has_cmd /\ report.cmd = e.cmd
    /\ report.msg = FailMsg(report.stdout, report.stderr)
    /\ EndsWith(report.stdout, e.out) /\ EndsWith(report.stderr, e.err)

\* C5 as stated: in the pip module, a virtualenv creation, a package listing
\* or an install/uninstall command that exits non-zero is the last subprocess
\* of the run, and the run ends in the failure report of that command with
\* the captured stdout/stderr.
C5_EveryFailureReported ==
    args.module = "pip" =>
        \A i \in 1..Len(log) :
            (log[i].rc # 0 /\ log[i].kind \in {"venv_create", "pip_list", "pip_freeze", "pip_cmd"})
            => (i = Len(log) /\ FailureOf(log[i]))

\* The exit code line 422 lets through: 1 from an uninstall that says "not
\* installed".
ToleratedUninstall(e) ==
    /\ e.kind = "pip_cmd" /\ e.rc = 1 /\ args.state = "absent"
    /\ Contains(e.out, "not installed") \/ Contains(e.err, "not installed")

\* C5 as amended: in the pip module, a virtualenv creation, a "pip freeze" or
\* an install/uninstall command that exits non-zero (but for an uninstall
\* exiting 1 with "not installed" in its output) is the last subprocess and
\* the run ends in its failure report; a "pip list --format=freeze" that
\* exits non-zero is followed by "pip freeze" and by nothing else in between.
C5_Amended ==
    args.module = "pip" =>
        \A i \in 1..Len(log) :
            /\ ( /\ log[i].rc # 0
                 /\ log[i].kind \in {"venv_create", "pip_freeze", "pip_cmd"}
                 /\ ~ToleratedUninstall(log[i]) )
               => (i = Len(log) /\ FailureOf(log[i]))
            /\ (log[i].rc # 0 /\ log[i].kind = "pip_list")
               => (i < Len(log) /\ log[i + 1].kind = "pip_freeze")

\* A run whose "pip list" failed and was replaced by "pip freeze", and whose
\* install command then failed and was reported.
C5_Witness ==
    /\ args.module = "pip" /\ Ended /\ report.kind = "fail"
    /\ Len(log) >= 3
    /\ log[1].kind = "pip_list" /\ log[1].rc # 0
    /\ log[Len(log)].kind = "pip_cmd" /\ log[Len(log)].rc # 0
    /\ report.stderr # <<>>

\* The words the claim gives for a state.
StateWords(state) ==
    CASE state = "present" -> << <<"install">> >>
      [] state = "absent" -> << <<"uninstall">>, <<"-y">> >>
      [] state = "latest" -> << <<"install">>, <<"-U">> >>
      [] state = "forcereinstall" -> << <<"install">>, <<"-U">>, <<"--force-reinstall">> >>

\* What follows the extra arguments: the packages, or -r and the file.
WhatToInstall ==
    IF TruthyList(args.name)
    THEN [i \in 1..Len(loc.packages) |-> PackageStr(loc.packages[i])]
    ELSE << <<"-r">>, args.requirements >>

\* The shell words of the extra_args input.
ExtraWords == IF Truthy(args.extra_args) THEN ShlexSplit(args.extra_args) ELSE <<>>

C7_CheckModeReadOnly ==
    (args.module = "pip" /\ args.check_mode)
    => \A i \in 1..Len(log) : log[i].kind \in ReadOnlyKinds

\* A check-mode run that met a virtualenv to create, and ended.
C7_Witness ==
    /\ args.module = "pip" /\ args.check_mode /\ Ended
    /\ Truthy(args.virtualenv) /\ ~host.venv_exists
    /\ report.kind = "exit" /\ report.changed

\* C8: in both modules, in a non-check run that has a virtualenv to create,
\* every package command comes after a creation command that exited with 0,
\* and after a creation command that exited non-zero there is no package
\* command.
C8_VenvBeforePackages ==
    (~args.check_mode /\ loc.venv_created) =>
        /\ \A i \in 1..Len(log) :
              log[i].kind \in PackageKinds
              => \E j \in 1..(i - 1) : log[j].kind = "venv_create" /\ log[j].rc = 0
        /\ (\E j \in 1..Len(log) : log[j].kind = "venv_create" /\ log[j].rc # 0)
           => \A i \in 1..Len(log) : log[i].kind \notin PackageKinds

\* A run that created its virtualenv and then ran the pip command.
C8_Witness ==
    /\ ~args.check_mode /\ loc.venv_created
    /\ \E i \in 1..Len(log) : log[i].kind = "pip_cmd"

\* The failure of line 308.
LatestFailure == FailJson(<<"version is incompatible with state=latest">>)

\* C9 as stated: a run of the pip module with state=latest and a version ends
\* in the failure 'version is incompatible with state=latest', and no
\* subprocess is run.
C9_LatestWithVersion ==
    (args.module = "pip" /\ args.state = "latest" /\ args.version # None)
    => /\ log = <<>>
       /\ Ended => report = LatestFailure

\* C9 as amended: with state=latest and a version no subprocess is run, no
\* virtualenv is created and no pip is looked up; the run ends in the failure
\* 'version is incompatible with state=latest' when setuptools is there and
\* the umask is absent or octal (it ends in another failure before that
\* otherwise).
C9_Amended ==
    (args.module = "pip" /\ args.state = "latest" /\ args.version # None)
    => /\ log = <<>> /\ loc.pip = <<>> /\ ~loc.venv_created
       /\ (Ended /\ args.has_setuptools /\ UmaskUsable) => report = LatestFailure
       /\ Ended => report.kind \in {"fail", "exception"}

\* A run with state=latest, a version, a umask and a virtualenv to create
\* that ended in the failure of line 308.
C9_Witness ==
    /\ args.module = "pip" /\ args.state = "latest" /\ args.version # None
    /\ Ended /\ report = LatestFailure
    /\ Truthy(args.virtualenv) /\ ~host.venv_exists /\ loc.old_umask_set

\* A package name that carries a version specifier.
CarriesSpecifier(n) == \E k \in 1..Len(n) : n[k] \in OpTokens

\* C10: with a version argument, when name gives several packages or one
\* with a specifier the run ends in a failure report and the install command
\* is not run; when it gives one package without a specifier the version is
\* attached to it (name==version when it starts with a digit).
C10_VersionArgument ==
    LET names == RecoverPackageName(args.name) IN
    ( /\ args.module = "pip" /\ Ended /\ args.has_setuptools /\ UmaskUsable
      /\ args.version # None /\ TruthyList(args.name) /\ args.state # "latest"
      /\ loc.pip # <<>> )
    => /\ (Len(names) > 1 \/ CarriesSpecifier(names[1]))
          => /\ report.kind = "fail"
             /\ \A i \in 1..Len(log) : log[i].kind # "pip_cmd"
       /\ (Len(names) = 1 /\ ~CarriesSpecifier(names[1]) /\ IsDigit(Head(args.version)))
          => /\ report.kind # "exception"
             /\ Len(loc.packages) = 1
             /\ PackageStr(loc.packages[1]) = names[1] \o <<"==">> \o args.version

\* C11: in the pipenv module the command executed with include_dev=true
\* differs from the one executed with include_dev=false, the other arguments
\* being equal, and it is the one that asks for the dev dependencies.
C11_IncludeDevDecides ==
    args.module = "pipenv" =>
        \A i \in 1..Len(log) :
            log[i].kind = "pipenv_sync"
            => /\ log[i].cmd # SyncCmd(log[i].cmd[1], ~args.include_dev)
               /\ args.include_dev <=> InList(log[i].cmd, <<"--dev">>)

\* A fragment that is a version specifier: it begins, after its blanks, with
\* an operator.
IsSpecifierFragment(f) == \E k \in 1..Len(f) :
    /\ f[k] \in OpTokens
    /\ \A j \in 1..(k - 1) : f[j] \in {" ", "\n"}

\* The places of the package-name fragments in a flat list.
NamePlaces(flat) == { i \in 1..Len(flat) : ~IsSpecifierFragment(flat[i]) }

\* The fragments from place i up to and without the next package-name
\* fragment.
GroupAt(flat, i) ==
    LET later == { j \in NamePlaces(flat) : j > i }
        last == IF later = {} THEN Len(flat)
                ELSE (CHOOSE j \in later : \A k \in later : j <= k) - 1
    IN  SubSeq(flat, i, last)

\* C12: _recover_package_name returns, in order, one entry per package-name
\* fragment of the comma-flattened input: that fragment and the specifier
\* fragments directly after it, joined with commas; no entry begins with a
\* version-specifier operator.
C12_RecoverPackageName ==
    (call.fn = "_recover_package_name" /\ call.done) =>
        LET flat == FlatNames(call.names)
            out == call.package_names
        IN  /\ Len(out) = Cardinality(NamePlaces(flat))
            /\ \A k \in 1..Len(out) :
                  /\ ~IsSpecifierFragment(out[k])
                  /\ \E i \in NamePlaces(flat) :
                        /\ Cardinality({ j \in NamePlaces(flat) : j <= i }) = k
                        /\ out[k] = Join(GroupAt(flat, i), <<",">>)

\* A line NAME==VERSION whose NAME is the requirement's package name, letter
\* case apart, and whose VERSION satisfies the requirement.
LineMatches(req, line) ==
    \E k \in 1..Len(line) :
        /\ line[k] = "=="
        /\ Lower(SubSeq(line, 1, k - 1)) = Lower(req.package_name)
        /\ IsSatisfiedBy(req, SubSeq(line, k + 1, Len(line)))

\* C13: _is_present returns true exactly when the listing has a line
\* NAME==VERSION whose NAME is the requirement's package name, compared
\* without regard to letter case, and whose VERSION satisfies the
\* requirement's specifier; no line of the listing makes it raise.
C13_IsPresent ==
    (call.fn = "_is_present" /\ call.done) =>
        /\ call.is_present \in {"true", "false"}
        /\ call.is_present = "true"
           <=> \E i \in 1..Len(call.installed_pkgs) :
                   LineMatches(call.req, call.installed_pkgs[i])

\* C14: the fallback comparison of is_satisfied_by gives the answer of the
\* specifier-based check, for every requirement and installed version.
C14_FallbackAgrees ==
    (call.fn = "is_satisfied_by" /\ call.done) => call.by_fallback = call.by_specifier

====
